---------------------------- MODULE Spec2Model ----------------------------
(***************************************************************************)
(* EcomGo user service: registration, login and lookup over a relational   *)
(* store (cmd/service/user/service.go, cmd/service/user/routes.go,         *)
(* internal/repository/user.go, internal/models/user.go).                  *)
(*                                                                         *)
(* Go strings are TLA+ strings; []byte values are sequences of 0..255.     *)
(* 32-bit words of the digest are pairs <<hi, lo>> of 16-bit halves, so    *)
(* that every sum stays inside the checker's integer range while the       *)
(* arithmetic stays modulo 2^32.                                           *)
(***************************************************************************)
EXTENDS Integers, Sequences, FiniteSets, TLC

(***************************************************************************)
(* crypto/sha256 and encoding/hex, as called by hashPassword.              *)
(***************************************************************************)
Half == 65536

Pow2(n) == 2 ^ n

Bit(n, k) == (n \div Pow2(k)) % 2

\* bitwise operators on 4-bit digits, tabulated once
NibXor == [i \in 0..15 |-> [j \in 0..15 |->
             ((Bit(i, 0) + Bit(j, 0)) % 2)
           + ((Bit(i, 1) + Bit(j, 1)) % 2) * 2
           + ((Bit(i, 2) + Bit(j, 2)) % 2) * 4
           + ((Bit(i, 3) + Bit(j, 3)) % 2) * 8]]

NibAnd == [i \in 0..15 |-> [j \in 0..15 |->
             (Bit(i, 0) * Bit(j, 0))
           + (Bit(i, 1) * Bit(j, 1)) * 2
           + (Bit(i, 2) * Bit(j, 2)) * 4
           + (Bit(i, 3) * Bit(j, 3)) * 8]]

Nib(n, k) == (n \div Pow2(4 * k)) % 16

Xor16(m, n) ==   NibXor[Nib(m, 0)][Nib(n, 0)]
               + NibXor[Nib(m, 1)][Nib(n, 1)] * 16
               + NibXor[Nib(m, 2)][Nib(n, 2)] * 256
               + NibXor[Nib(m, 3)][Nib(n, 3)] * 4096

And16(m, n) ==   NibAnd[Nib(m, 0)][Nib(n, 0)]
               + NibAnd[Nib(m, 1)][Nib(n, 1)] * 16
               + NibAnd[Nib(m, 2)][Nib(n, 2)] * 256
               + NibAnd[Nib(m, 3)][Nib(n, 3)] * 4096

Xor32(a, b) == <<Xor16(a[1], b[1]), Xor16(a[2], b[2])>>

And32(a, b) == <<And16(a[1], b[1]), And16(a[2], b[2])>>

Not32(a) == <<Half - 1 - a[1], Half - 1 - a[2]>>

\* a + b modulo 2^32
Add32(a, b) ==
    LET lo == a[2] + b[2]
        hi == a[1] + b[1] + (lo \div Half)
    IN  <<hi % Half, lo % Half>>

\* bits.RotateLeft32(a, -n), 0 < n < 32
Rotr32(a, n) ==
    LET s == IF n >= 16 THEN <<a[2], a[1]>> ELSE a
        m == n % 16
    IN  IF m = 0 THEN s
        ELSE <<(s[1] \div Pow2(m)) + (s[2] % Pow2(m)) * Pow2(16 - m),
               (s[2] \div Pow2(m)) + (s[1] % Pow2(m)) * Pow2(16 - m)>>

\* a >> n, 0 < n < 16
Shr32(a, n) ==
    <<a[1] \div Pow2(n), (a[2] \div Pow2(n)) + (a[1] % Pow2(n)) * Pow2(16 - n)>>

_K ==
   << <<17034, 12184>>, <<28983, 17553>>, <<46528, 64463>>, <<59829, 56229>>,
      <<14678, 49755>>, <<23025, 4593>>, <<37439, 33444>>, <<43804, 24277>>,
      <<55303, 43672>>, <<4739, 23297>>, <<9265, 34238>>, <<21772, 32195>>,
      <<29374, 23924>>, <<32990, 45566>>, <<39900, 1703>>, <<49563, 61812>>,
      <<58523, 27073>>, <<61374, 18310>>, <<4033, 40390>>, <<9228, 41420>>,
      <<11753, 11375>>, <<19060, 33962>>, <<23728, 43484>>, <<30457, 35034>>,
      <<38974, 20818>>, <<43057, 50797>>, <<45059, 10184>>, <<48985, 32711>>,
      <<50912, 3059>>, <<54695, 37191>>, <<1738, 25425>>, <<5161, 10599>>,
      <<10167, 2693>>, <<11803, 8504>>, <<19756, 28156>>, <<21304, 3347>>,
      <<25866, 29524>>, <<30314, 2747>>, <<33218, 51502>>, <<37490, 11397>>,
      <<41663, 59553>>, <<43034, 26187>>, <<49739, 35696>>, <<51052, 20899>>,
      <<53650, 59417>>, <<54937, 1572>>, <<62478, 13701>>, <<4202, 41072>>,
      <<6564, 49430>>, <<7735, 27656>>, <<10056, 30540>>, <<13488, 48309>>,
      <<14620, 3251>>, <<20184, 43594>>, <<23452, 51791>>, <<26670, 28659>>,
      <<29839, 33518>>, <<30885, 25455>>, <<33992, 30740>>, <<36039, 520>>,
      <<37054, 65530>>, <<42064, 27883>>, <<48889, 41975>>, <<50801, 30962>> >>

init256 ==
   << <<27145, 58983>>, <<47975, 44677>>, <<15470, 62322>>, <<42319, 62778>>,
      <<20750, 21119>>, <<39685, 26764>>, <<8067, 55723>>, <<23520, 52505>> >>

Zeros(n) == [i \in 1..n |-> 0]

\* the message, 0x80, zero fill to 56 mod 64, then the bit length (big endian)
Pad(msg) ==
    LET len  == Len(msg)
        fill == (119 - len) % 64
        bits == len * 8
    IN  msg \o <<128>> \o Zeros(fill) \o Zeros(5)
            \o <<bits \div Half, (bits \div 256) % 256, bits % 256>>

SmallSigma0(v) == Xor32(Xor32(Rotr32(v, 7), Rotr32(v, 18)), Shr32(v, 3))

SmallSigma1(v) == Xor32(Xor32(Rotr32(v, 17), Rotr32(v, 19)), Shr32(v, 10))

BigSigma0(v) == Xor32(Xor32(Rotr32(v, 2), Rotr32(v, 13)), Rotr32(v, 22))

BigSigma1(v) == Xor32(Xor32(Rotr32(v, 6), Rotr32(v, 11)), Rotr32(v, 25))

Ch(e, f, g) == Xor32(And32(e, f), And32(Not32(e), g))

Maj(a, b, c) == Xor32(Xor32(And32(a, b), And32(a, c)), And32(b, c))

\* w[0..15] of one 64-byte chunk p (1-based sequences here)
ChunkWords(p) ==
    [t \in 1..16 |-> <<p[4 * t - 3] * 256 + p[4 * t - 2],
                       p[4 * t - 1] * 256 + p[4 * t]>>]

RECURSIVE Schedule(_)
Schedule(w) ==
    IF Len(w) = 64 THEN w
    ELSE LET t == Len(w) + 1
             v == Add32(Add32(SmallSigma1(w[t - 2]), w[t - 7]),
                        Add32(SmallSigma0(w[t - 15]), w[t - 16]))
         IN  Schedule(Append(w, v))

RECURSIVE Rounds(_, _, _)
\* s holds the eight working variables a..h; reading it before each round
\* keeps the evaluation iterative
Rounds(s, w, t) ==
    IF t > 64 \/ Len(s) # 8 THEN s
    ELSE LET t1 == Add32(Add32(Add32(s[8], BigSigma1(s[5])),
                               Add32(Ch(s[5], s[6], s[7]), _K[t])), w[t])
             t2 == Add32(BigSigma0(s[1]), Maj(s[1], s[2], s[3]))
         IN  Rounds(<<Add32(t1, t2), s[1], s[2], s[3],
                      Add32(s[4], t1), s[5], s[6], s[7]>>, w, t + 1)

Block(h, p) ==
    LET s == Rounds(h, Schedule(ChunkWords(p)), 1)
    IN  [i \in 1..8 |-> Add32(h[i], s[i])]

RECURSIVE Blocks(_, _)
Blocks(h, data) ==
    IF Len(data) = 0 THEN h
    ELSE Blocks(Block(h, SubSeq(data, 1, 64)), SubSeq(data, 65, Len(data)))

\* sha256.Sum256: the 32 bytes of the digest
Sum256(data) ==
    LET h == Blocks(init256, Pad(data))
    IN  [i \in 1..32 |->
           LET wd == h[(i + 3) \div 4]
               k  == (i - 1) % 4
           IN  IF k = 0 THEN wd[1] \div 256
               ELSE IF k = 1 THEN wd[1] % 256
               ELSE IF k = 2 THEN wd[2] \div 256
               ELSE wd[2] % 256]

hextable == "0123456789abcdef"

HexDigit(n) == SubSeq(hextable, n + 1, n + 1)

RECURSIVE EncodeToString(_)
EncodeToString(src) ==
    IF Len(src) = 0 THEN ""
    ELSE HexDigit(Head(src) \div 16) \o HexDigit(Head(src) % 16)
           \o EncodeToString(Tail(src))

\* []byte(s) for the characters the requests use
AsciiFrom32 == " !\"#$%&'()*+,-./0123456789:;<=>?@ABCDEFGHIJKLMNOPQRSTUVWXYZ"

AsciiFrom97 == "abcdefghijklmnopqrstuvwxyz"

ByteOf(c) ==
    IF \E i \in 1..Len(AsciiFrom97) : SubSeq(AsciiFrom97, i, i) = c
    THEN 96 + (CHOOSE i \in 1..Len(AsciiFrom97) : SubSeq(AsciiFrom97, i, i) = c)
    ELSE 31 + (CHOOSE i \in 1..Len(AsciiFrom32) : SubSeq(AsciiFrom32, i, i) = c)

Bytes(s) == [i \in 1..Len(s) |-> ByteOf(SubSeq(s, i, i))]


(***************************************************************************)
(* Bounds and request inputs.                                              *)
(***************************************************************************)
\* number of requests that may be in flight at the same time
NumProcs == 2

Procs == 1..NumProcs

Emails == {"a@x.com", "b@x.com"}

\* <<password, first_name, last_name>> of a registration
Credentials == {<<"secret1", "", "">>, <<"secret2", "A", "B">>}

Passwords == {c[1] : c \in Credentials}

\* ids asked for through GET /users/{id}
PathIDs == {"", "550e8400"}

\* Authorization headers of a GET /users/{id}: none, the token of the id
\* asked for, the token Register gives (the one of the user with id ""), a
\* malformed one
Authorizations ==
    {"", "Bearer eyJhbGciOiJIUzI1NiIsInR5cCI6IkpXVCJ9.550e8400",
     "Bearer eyJhbGciOiJIUzI1NiIsInR5cCI6IkpXVCJ9.", "Bearer x"}

\* plaintexts given to the hasher on its own
HashInputs ==
    Passwords \cup {"", "secret", "Secret1", "secret10", "1terces", "wrong",
                    "pass word", "abc"}

\* user ids given to the token issuer on its own
TokenInputs == PathIDs \cup {"550e8401", "eyJ"}

Nil == "<nil>"

\* a request body that is not valid JSON
BadJSON == [syntaxError |-> TRUE]

RegisterBodies ==
    {[syntaxError |-> FALSE, Email |-> e, Password |-> c[1],
      FirstName |-> c[2], LastName |-> c[3]] :
        e \in Emails, c \in Credentials} \cup {BadJSON}

LoginBodies ==
    {[syntaxError |-> FALSE, Email |-> e, Password |-> pw] :
        e \in Emails, pw \in Passwords} \cup {BadJSON}

\* binding:"required,min=6" of the password
MinPasswordLen == 6

\* binding:"required,email": a local part, an @ and a domain
EmailShaped(e) == \E i \in 2..(Len(e) - 1) : SubSeq(e, i, i) = "@"

\* the binding tags of LoginRequest and RegisterRequest; a missing field
\* decodes to the empty string
ValidBody(body) ==
    /\ EmailShaped(body.Email)
    /\ Len(body.Password) >= MinPasswordLen

\* well-formed JSON bodies that break at least one of the binding tags
InvalidRegisterBodies ==
    {body \in {[syntaxError |-> FALSE, Email |-> e, Password |-> pw,
                FirstName |-> "", LastName |-> ""] :
                    e \in {"", "not-an-email", "a@x.com"},
                    pw \in {"", "abc", "secret1"}} : ~ValidBody(body)}

InvalidLoginBodies ==
    {body \in {[syntaxError |-> FALSE, Email |-> e, Password |-> pw] :
                    e \in {"", "not-an-email", "a@x.com"},
                    pw \in {"", "abc", "secret1"}} : ~ValidBody(body)}

VARIABLES
    users,      \* the rows of table users, in insertion order
    dbUp,       \* whether the database answers; while FALSE every query fails
    pc,         \* pc[p]: "idle", "CreateUser" (Register between its two store calls), "done"
    request,    \* request[p]: the HTTP request p is serving or served last
    newUser,    \* newUser[p]: Register's local user, before CreateUser
    lookup,     \* lookup[p]: the error Register's existence lookup returned and dropped
    result,     \* result[p]: what the service method returned, [resp, err]
    response,   \* response[p]: the HTTP response, [status, body]
    calc,       \* a direct call of hashPassword / verifyPassword / generateToken
    server      \* the process: where APIServer.Run is, migrations done, routes

vars == <<users, dbUp, pc, request, newUser, lookup, result, response, calc, server>>

svcVars == <<users, dbUp, pc, request, newUser, lookup, result, response, server>>

(***************************************************************************)
(* The store: table users behind GORM (internal/models/user.go,            *)
(* internal/repository/user.go).  A pointer is the empty set (nil) or a    *)
(* one-element set.  created_at and updated_at are left out: nothing reads *)
(* them.                                                                   *)
(***************************************************************************)
NilPtr == {}

Ptr(v) == {v}

Deref(ptr) == CHOOSE v \in ptr : TRUE

ErrRecordNotFound == "record not found"

ErrBadConn == "driver: bad connection"

\* the driver's error for a row that repeats a unique key: it quotes the
\* repeated value and the key
DuplicateEntry(value, key) ==
    "Error 1062 (23000): Duplicate entry '" \o value \o "' for key '" \o key \o "'"

\* gorm.DeletedAt: NULL unless the row is soft-deleted
NotDeleted(row) == row.DeletedAt = Nil

\* a table created without its keys
ViolatedKeysNone(row, table) == {}

\* primaryKey on id and uniqueIndex on email, each over every row of the table
ViolatedKeys(row, table) ==
    (IF \E i \in 1..Len(table) : table[i].ID = row.ID
        THEN {"PRIMARY"} ELSE {})
    \cup
    (IF \E i \in 1..Len(table) : table[i].Email = row.Email
        THEN {"idx_users_email"} ELSE {})

\* db.Create(user): the row goes in as given, ID included
Create(row, table, up) ==
    IF ~up THEN [err |-> ErrBadConn, table |-> table]
    ELSE IF "PRIMARY" \in ViolatedKeys(row, table)
        THEN [err |-> DuplicateEntry(row.ID, "PRIMARY"), table |-> table]
    ELSE IF "idx_users_email" \in ViolatedKeys(row, table)
        THEN [err |-> DuplicateEntry(row.Email, "idx_users_email"), table |-> table]
    ELSE [err |-> Nil, table |-> Append(table, row)]

\* the query on a model without the DeletedAt field: deleted rows are found
FirstUnscoped(column, value, table, up) ==
    LET hits == {i \in 1..Len(table) : table[i][column] = value}
    IN  IF ~up THEN [row |-> NilPtr, err |-> ErrBadConn]
        ELSE IF hits = {} THEN [row |-> NilPtr, err |-> ErrRecordNotFound]
        ELSE [row |-> Ptr(table[CHOOSE i \in hits : \A j \in hits : i <= j]),
              err |-> Nil]

\* db.Where(column = value).First(&user): soft-deleted rows are left out
First(column, value, table, up) ==
    LET hits == {i \in 1..Len(table) :
                    table[i][column] = value /\ NotDeleted(table[i])}
    IN  IF ~up THEN [row |-> NilPtr, err |-> ErrBadConn]
        ELSE IF hits = {} THEN [row |-> NilPtr, err |-> ErrRecordNotFound]
        ELSE [row |-> Ptr(table[CHOOSE i \in hits : \A j \in hits : i <= j]),
              err |-> Nil]

ErrUserNotFound == "user not found"

\* an insert that is not undone when it reports an error
CreateUserNotRolledBack(u, table, up) ==
    LET c == Create(u, table, up)
    IN  IF c.err # Nil /\ up
        THEN [err |-> c.err, table |-> Append(table, u)]
        ELSE c

CreateUser(u, table, up) == Create(u, table, up)

\* the lookup filtering on the wrong column
GetUserByEmailWrongColumn(email, table, up) ==
    LET q == First("ID", email, table, up)
    IN  IF q.err # Nil
        THEN IF q.err = ErrRecordNotFound
             THEN [user |-> NilPtr, err |-> ErrUserNotFound]
             ELSE [user |-> NilPtr, err |-> q.err]
        ELSE [user |-> q.row, err |-> Nil]

GetUserByEmail(email, table, up) ==
    LET q == First("Email", email, table, up)
    IN  IF q.err # Nil
        THEN IF q.err = ErrRecordNotFound
             THEN [user |-> NilPtr, err |-> ErrUserNotFound]
             ELSE [user |-> NilPtr, err |-> q.err]
        ELSE [user |-> q.row, err |-> Nil]

\* the lookup with its condition lost: the first row of the table
RepoGetUserByIDNoCondition(id, table, up) ==
    IF ~up THEN [user |-> NilPtr, err |-> ErrBadConn]
    ELSE IF \A i \in 1..Len(table) : ~NotDeleted(table[i])
        THEN [user |-> NilPtr, err |-> ErrUserNotFound]
    ELSE [user |-> Ptr(table[CHOOSE i \in 1..Len(table) :
                                /\ NotDeleted(table[i])
                                /\ \A j \in 1..(i - 1) : ~NotDeleted(table[j])]),
          err |-> Nil]

RepoGetUserByID(id, table, up) ==
    LET q == First("ID", id, table, up)
    IN  IF q.err # Nil
        THEN IF q.err = ErrRecordNotFound
             THEN [user |-> NilPtr, err |-> ErrUserNotFound]
             ELSE [user |-> NilPtr, err |-> q.err]
        ELSE [user |-> q.row, err |-> Nil]

(***************************************************************************)
(* The service (cmd/service/user/service.go).                              *)
(***************************************************************************)
\* hashPassword over the plaintexts of the model, computed once
HashTable == [pw \in HashInputs |-> EncodeToString(Sum256(Bytes(pw)))]

\* a hasher that reads the first six bytes only
hashPasswordTruncated(password) ==
    EncodeToString(Sum256(Bytes(
        IF Len(password) > 6 THEN SubSeq(password, 1, 6) ELSE password)))

hashPassword(password) == HashTable[password]

\* a verifier that compares the lengths of the digests
verifyPasswordLength(password, hash) == Len(hashPassword(password)) = Len(hash)

verifyPassword(password, hash) == hashPassword(password) = hash

TokenPrefix == "eyJhbGciOiJIUzI1NiIsInR5cCI6IkpXVCJ9."

\* an issuer that appends a field after the id
generateTokenSuffixed(userID) == TokenPrefix \o userID \o ".sig"

generateToken(userID) == TokenPrefix \o userID

ErrUserExists == "user already exists"

ErrInvalidCredentials == "invalid credentials"

\* an AuthResponse that expires an hour after the epoch
AuthResponseExpiring(token, u) == [Token |-> token, User |-> u, ExpiresAt |-> 3600]

\* models.AuthResponse{Token, User}: ExpiresAt keeps its zero value
AuthResponse(token, u) == [Token |-> token, User |-> u, ExpiresAt |-> 0]

\* Register up to CreateUser: the existence lookup (its error dropped) and
\* the user to insert, whose ID is the zero value
RegisterCheck(body, table, up) ==
    LET q == GetUserByEmail(body.Email, table, up)
    IN  [existingUser |-> q.user,
         lookupErr    |-> q.err,
         user |-> [ID           |-> "",
                   Email        |-> body.Email,
                   PasswordHash |-> hashPassword(body.Password),
                   FirstName    |-> body.FirstName,
                   LastName     |-> body.LastName,
                   DeletedAt    |-> Nil]]

\* a Register that writes with Save (UpdateUser): the row with the primary
\* key of the user is overwritten
RegisterCreateWithSave(u, table, up) ==
    LET hits == {i \in 1..Len(table) : table[i].ID = u.ID}
    IN  IF ~up THEN [resp |-> NilPtr, err |-> ErrBadConn, table |-> table]
        ELSE [resp |-> Ptr(AuthResponse(generateToken(u.ID), u)),
              err |-> Nil,
              table |-> IF hits = {} THEN Append(table, u)
                        ELSE [i \in 1..Len(table) |->
                                 IF i \in hits THEN u ELSE table[i]]]

\* a Register that answers before it looks at the error of the insert
RegisterCreateErrorDropped(u, table, up) ==
    LET c == CreateUser(u, table, up)
    IN  [resp |-> Ptr(AuthResponse(generateToken(u.ID), u)),
         err |-> Nil, table |-> c.table]

\* Register from CreateUser on
RegisterCreate(u, table, up) ==
    LET c == CreateUser(u, table, up)
    IN  IF c.err # Nil
        THEN [resp |-> NilPtr, err |-> c.err, table |-> c.table]
        ELSE [resp |-> Ptr(AuthResponse(generateToken(u.ID), u)),
              err |-> Nil, table |-> c.table]

\* a Login that passes the lookup's error on
LoginLeaky(body, table, up) ==
    LET q == GetUserByEmail(body.Email, table, up)
    IN  IF q.err # Nil
        THEN [resp |-> NilPtr, err |-> q.err]
        ELSE IF ~verifyPassword(body.Password, Deref(q.user).PasswordHash)
        THEN [resp |-> NilPtr, err |-> ErrInvalidCredentials]
        ELSE [resp |-> Ptr(AuthResponse(generateToken(Deref(q.user).ID),
                                        Deref(q.user))),
              err |-> Nil]

Login(body, table, up) ==
    LET q == GetUserByEmail(body.Email, table, up)
    IN  IF q.err # Nil
        THEN [resp |-> NilPtr, err |-> ErrInvalidCredentials]
        ELSE IF ~verifyPassword(body.Password, Deref(q.user).PasswordHash)
        THEN [resp |-> NilPtr, err |-> ErrInvalidCredentials]
        ELSE [resp |-> Ptr(AuthResponse(generateToken(Deref(q.user).ID),
                                        Deref(q.user))),
              err |-> Nil]

GetUserByID(id, table, up) == RepoGetUserByID(id, table, up)

(***************************************************************************)
(* The handlers (cmd/service/user/routes.go).  A response is its status,   *)
(* its plain-text body (http.Error) and its JSON body (json.Encode).       *)
(***************************************************************************)
StatusOK == 200

StatusCreated == 201

StatusBadRequest == 400

StatusUnauthorized == 401

StatusNotFound == 404

\* encoding/json of a User whose fields all carry a name
MarshalUserEveryField(u) ==
    [id |-> u.ID, email |-> u.Email, password_hash |-> u.PasswordHash,
     first_name |-> u.FirstName, last_name |-> u.LastName,
     deleted_at |-> u.DeletedAt]

\* encoding/json of models.User: PasswordHash and DeletedAt carry json:"-"
MarshalUser(u) ==
    [id |-> u.ID, email |-> u.Email,
     first_name |-> u.FirstName, last_name |-> u.LastName]

MarshalAuthResponse(a) ==
    [token |-> a.Token, user |-> MarshalUser(a.User), expires_at |-> a.ExpiresAt]

\* http.Error(w, msg, code)
HttpError(msg, code) == [status |-> code, text |-> msg \o "\n", json |-> {}]

WriteJSON(code, v) == [status |-> code, text |-> "", json |-> {v}]

NoResult == [resp |-> NilPtr, err |-> Nil]

NoResponse == [status |-> 0, text |-> "", json |-> {}]

NoCall == [fn |-> "none"]

\* APIServer.Run's list of migrations
Migrations == <<"migrateUsersTable">>

\* the process when main calls APIServer.Run
Booting == [phase |-> "Run", applied |-> 0, routes |-> FALSE, fatal |-> Nil]

\* the process once Run has migrated and Start listens
Serving ==
    [phase |-> "ListenAndServe", applied |-> Len(Migrations), routes |-> TRUE,
     fatal |-> Nil]

\* http.ListenAndServe has the router with the /api/v1 routes
Listening == server.phase = "ListenAndServe" /\ server.routes

Init ==
    /\ server = Serving
    /\ users = <<>>
    /\ dbUp = TRUE
    /\ pc = [p \in Procs |-> "idle"]
    /\ request = [p \in Procs |-> [op |-> "none"]]
    /\ newUser = [p \in Procs |-> NilPtr]
    /\ lookup = [p \in Procs |-> Nil]
    /\ result = [p \in Procs |-> NoResult]
    /\ response = [p \in Procs |-> NoResponse]
    /\ calc = NoCall

\* the handler of p returns: the service's return value and the response
Return(p, res, rsp) ==
    /\ pc' = [pc EXCEPT ![p] = "done"]
    /\ result' = [result EXCEPT ![p] = res]
    /\ response' = [response EXCEPT ![p] = rsp]
    /\ newUser' = [newUser EXCEPT ![p] = NilPtr]

\* POST /register: decode, then Register up to the point before CreateUser
handleRegister(p, body) ==
    /\ Listening
    /\ pc[p] # "CreateUser"
    /\ request' = [request EXCEPT ![p] = [op |-> "register", body |-> body]]
    /\ UNCHANGED <<users, dbUp, calc, server>>
    /\ IF body.syntaxError
       THEN /\ Return(p, NoResult, HttpError("Invalid request", StatusBadRequest))
            /\ lookup' = [lookup EXCEPT ![p] = Nil]
       ELSE LET c == RegisterCheck(body, users, dbUp)
            IN  /\ lookup' = [lookup EXCEPT ![p] = c.lookupErr]
                /\ IF c.existingUser # NilPtr
                   THEN Return(p, [resp |-> NilPtr, err |-> ErrUserExists],
                               HttpError(ErrUserExists, StatusBadRequest))
                   ELSE /\ pc' = [pc EXCEPT ![p] = "CreateUser"]
                        /\ newUser' = [newUser EXCEPT ![p] = Ptr(c.user)]
                        /\ result' = [result EXCEPT ![p] = NoResult]
                        /\ response' = [response EXCEPT ![p] = NoResponse]

ErrContextCanceled == "context canceled"

\* whether the context the handler gives the service is done: it is
\* context.Background(), not the context of the request
ServiceContextDone(req) == FALSE

\* Register from CreateUser on, and the rest of handleRegister; WithContext
\* makes the insert fail, before it writes, when its context is done
handleRegisterCreate(p) ==
    /\ Listening
    /\ pc[p] = "CreateUser"
    /\ LET r == IF ServiceContextDone(request[p])
                THEN [resp |-> NilPtr, err |-> ErrContextCanceled, table |-> users]
                ELSE RegisterCreate(Deref(newUser[p]), users, dbUp)
       IN  /\ users' = r.table
           /\ IF r.err # Nil
              THEN Return(p, [resp |-> NilPtr, err |-> r.err],
                          HttpError(r.err, StatusBadRequest))
              ELSE Return(p, [resp |-> r.resp, err |-> Nil],
                          WriteJSON(StatusCreated, MarshalAuthResponse(Deref(r.resp))))
    /\ UNCHANGED <<dbUp, request, lookup, calc, server>>

\* POST /login
handleLogin(p, body) ==
    /\ Listening
    /\ pc[p] # "CreateUser"
    /\ request' = [request EXCEPT ![p] = [op |-> "login", body |-> body]]
    /\ lookup' = [lookup EXCEPT ![p] = Nil]
    /\ UNCHANGED <<users, dbUp, calc, server>>
    /\ IF body.syntaxError
       THEN Return(p, NoResult, HttpError("Invalid request", StatusBadRequest))
       ELSE LET r == Login(body, users, dbUp)
            IN  IF r.err # Nil
                THEN Return(p, r, HttpError("Invalid credentials", StatusUnauthorized))
                ELSE Return(p, r, WriteJSON(StatusOK, MarshalAuthResponse(Deref(r.resp))))

\* a get-user that asks for the bearer token of the user it returns
handleGetUserBearer(p, id, auth) ==
    /\ Listening
    /\ pc[p] # "CreateUser"
    /\ request' = [request EXCEPT ![p] = [op |-> "getuser", id |-> id,
                                          auth |-> auth, seen |-> users]]
    /\ lookup' = [lookup EXCEPT ![p] = Nil]
    /\ UNCHANGED <<users, dbUp, calc, server>>
    /\ IF id = ""
       THEN Return(p, NoResult, HttpError("404 page not found", StatusNotFound))
       ELSE IF auth # "Bearer " \o generateToken(id)
       THEN Return(p, NoResult, HttpError("Unauthorized", StatusUnauthorized))
       ELSE LET r == GetUserByID(id, users, dbUp)
            IN  IF r.err # Nil
                THEN Return(p, [resp |-> NilPtr, err |-> r.err],
                            HttpError("User not found", StatusNotFound))
                ELSE Return(p, [resp |-> r.user, err |-> Nil],
                            WriteJSON(StatusOK, MarshalUser(Deref(r.user))))

\* GET /users/{id}: the route matches a non-empty id only; the handler
\* reads no header.  seen records the rows the request was served from.
handleGetUser(p, id, auth) ==
    /\ Listening
    /\ pc[p] # "CreateUser"
    /\ request' = [request EXCEPT ![p] = [op |-> "getuser", id |-> id,
                                          auth |-> auth, seen |-> users]]
    /\ lookup' = [lookup EXCEPT ![p] = Nil]
    /\ UNCHANGED <<users, dbUp, calc, server>>
    /\ IF id = ""
       THEN Return(p, NoResult, HttpError("404 page not found", StatusNotFound))
       ELSE LET r == GetUserByID(id, users, dbUp)
            IN  IF r.err # Nil
                THEN Return(p, [resp |-> NilPtr, err |-> r.err],
                            HttpError("User not found", StatusNotFound))
                ELSE Return(p, [resp |-> r.user, err |-> Nil],
                            WriteJSON(StatusOK, MarshalUser(Deref(r.user))))

\* the database stops answering, and answers again
DbDown ==
    /\ dbUp
    /\ dbUp' = FALSE
    /\ UNCHANGED <<users, pc, request, newUser, lookup, result, response, calc, server>>

DbRecover ==
    /\ ~dbUp
    /\ dbUp' = TRUE
    /\ UNCHANGED <<users, pc, request, newUser, lookup, result, response, calc, server>>

Next ==
    \/ \E p \in Procs : \E body \in RegisterBodies : handleRegister(p, body)
    \/ \E p \in Procs : handleRegisterCreate(p)
    \/ \E p \in Procs : \E body \in LoginBodies : handleLogin(p, body)
    \/ \E p \in Procs : \E id \in PathIDs : handleGetUser(p, id, "")

\* the store answers every query
Spec == Init /\ [][Next]_vars

\* the store may stop answering at any moment
FaultNext == Next \/ DbDown \/ DbRecover

FaultSpec == Init /\ [][FaultNext]_vars

\* the time a soft delete writes into deleted_at
DeletionTime == "2026-01-01T00:00:00Z"

\* a row is soft-deleted (gorm.DeletedAt): the program has no delete
\* endpoint, the column is written by whoever else works on the table
SoftDelete(i) ==
    /\ NotDeleted(users[i])
    /\ users' = [users EXCEPT ![i].DeletedAt = DeletionTime]
    /\ UNCHANGED <<dbUp, pc, request, newUser, lookup, result, response, calc, server>>

\* UserService.GetUserByID called on its own, any id
ServiceGetUserByID(id) ==
    /\ LET r == GetUserByID(id, users, dbUp)
       IN  calc' = [fn |-> "GetUserByID", id |-> id, user |-> r.user, err |-> r.err]
    /\ UNCHANGED svcVars

\* registrations and logins, soft deletes and direct lookups by id
AdminNext ==
    \/ \E p \in Procs : \E body \in RegisterBodies : handleRegister(p, body)
    \/ \E p \in Procs : handleRegisterCreate(p)
    \/ \E p \in Procs : \E body \in LoginBodies : handleLogin(p, body)
    \/ \E i \in 1..Len(users) : SoftDelete(i)
    \/ \E id \in PathIDs : ServiceGetUserByID(id)

AdminSpec == Init /\ [][AdminNext]_vars

\* the client of p gives its request up while Register is between its
\* lookup and its insert: the context of the request is cancelled
Cancel(p) ==
    /\ pc[p] = "CreateUser"
    /\ "cancelled" \notin DOMAIN request[p]
    /\ request' = [request EXCEPT ![p] = [op |-> request[p].op,
                                          body |-> request[p].body,
                                          cancelled |-> TRUE]]
    /\ UNCHANGED <<users, dbUp, pc, newUser, lookup, result, response, calc, server>>

\* registrations that their clients may cancel
CancelNext ==
    \/ \E p \in Procs : \E body \in RegisterBodies : handleRegister(p, body)
    \/ \E p \in Procs : handleRegisterCreate(p)
    \/ \E p \in Procs : Cancel(p)

CancelSpec == Init /\ [][CancelNext]_vars

\* well-formed registrations and logins with the first password, and the
\* lookups that reach the store
OutageRegisterBodies ==
    {body \in RegisterBodies : ~body.syntaxError /\ body.Password = "secret1"}

OutagePathIDs == PathIDs \ {""}

OutageLoginBodies ==
    {body \in LoginBodies : ~body.syntaxError /\ body.Password = "secret1"}

\* every operation, on a store that may stop answering at any moment
OutageNext ==
    \/ \E p \in Procs : \E body \in OutageRegisterBodies : handleRegister(p, body)
    \/ \E p \in Procs : handleRegisterCreate(p)
    \/ \E p \in Procs : \E body \in OutageLoginBodies : handleLogin(p, body)
    \/ \E p \in Procs : \E id \in OutagePathIDs : handleGetUser(p, id, "")
    \/ DbDown
    \/ DbRecover

OutageSpec == Init /\ [][OutageNext]_vars

\* the state when main calls APIServer.Run: nothing served yet
BootInit ==
    /\ server = Booting
    /\ users = <<>>
    /\ dbUp = TRUE
    /\ pc = [p \in Procs |-> "idle"]
    /\ request = [p \in Procs |-> [op |-> "none"]]
    /\ newUser = [p \in Procs |-> NilPtr]
    /\ lookup = [p \in Procs |-> Nil]
    /\ result = [p \in Procs |-> NoResult]
    /\ response = [p \in Procs |-> NoResponse]
    /\ calc = NoCall

\* log.Fatal: the process ends
Fatal(msg) == [server EXCEPT !.phase = "exited", !.fatal = msg]

\* a Run that goes on to Start whatever MigrateDB returned
MigrateDBErrorIgnored(ok) ==
    /\ server.phase = "Run"
    /\ server.applied < Len(Migrations)
    /\ server' = IF ok /\ server.applied + 1 < Len(Migrations)
                 THEN [server EXCEPT !.applied = @ + 1]
                 ELSE IF ok
                 THEN [server EXCEPT !.applied = @ + 1, !.phase = "Start"]
                 ELSE [server EXCEPT !.phase = "Start"]
    /\ UNCHANGED <<users, dbUp, pc, request, newUser, lookup, result, response, calc>>

\* Run in MigrateDB: the next migration of the list succeeds or fails; the
\* first failure makes MigrateDB return its error and Run call log.Fatal,
\* the last success lets Run go on to Start
MigrateDB(ok) ==
    /\ server.phase = "Run"
    /\ server.applied < Len(Migrations)
    /\ server' = IF ~ok THEN Fatal("Failed to run migrations")
                 ELSE IF server.applied + 1 < Len(Migrations)
                 THEN [server EXCEPT !.applied = @ + 1]
                 ELSE [server EXCEPT !.applied = @ + 1, !.phase = "Start"]
    /\ UNCHANGED <<users, dbUp, pc, request, newUser, lookup, result, response, calc>>

\* Start: the /api/v1 routes are registered, then http.ListenAndServe
\* listens, or returns its error and Run calls log.Fatal
Start(ok) ==
    /\ server.phase = "Start"
    /\ server' = IF ok
                 THEN [server EXCEPT !.routes = TRUE, !.phase = "ListenAndServe"]
                 ELSE [Fatal("Failed to start server") EXCEPT !.routes = TRUE]
    /\ UNCHANGED <<users, dbUp, pc, request, newUser, lookup, result, response, calc>>

\* the process from Run on, and the requests it serves
BootNext ==
    \/ \E ok \in BOOLEAN : MigrateDB(ok)
    \/ \E ok \in BOOLEAN : Start(ok)
    \/ \E p \in Procs : \E body \in RegisterBodies : handleRegister(p, body)
    \/ \E p \in Procs : handleRegisterCreate(p)
    \/ \E p \in Procs : \E id \in PathIDs : handleGetUser(p, id, "")

BootSpec == BootInit /\ [][BootNext]_vars

\* registrations and logins whose bodies break the binding tags
ValidationNext ==
    \/ \E p \in Procs : \E body \in InvalidRegisterBodies : handleRegister(p, body)
    \/ \E p \in Procs : handleRegisterCreate(p)
    \/ \E p \in Procs : \E body \in InvalidLoginBodies : handleLogin(p, body)

ValidationSpec == Init /\ [][ValidationNext]_vars

\* registrations, and lookups that carry any of the Authorization headers
AuthNext ==
    \/ \E p \in Procs : \E body \in RegisterBodies : handleRegister(p, body)
    \/ \E p \in Procs : handleRegisterCreate(p)
    \/ \E p \in Procs : \E id \in PathIDs : \E auth \in Authorizations :
          handleGetUser(p, id, auth)

AuthSpec == Init /\ [][AuthNext]_vars

(***************************************************************************)
(* The hasher and the token issuer called on their own, with every         *)
(* plaintext of HashInputs and every id of TokenInputs.                    *)
(***************************************************************************)
CallHashPassword(pw) ==
    /\ calc.fn = "none"
    /\ calc' = [fn |-> "hashPassword", password |-> pw, digest |-> hashPassword(pw)]
    /\ UNCHANGED svcVars

\* a second call with the plaintext of the first
CallHashPasswordAgain ==
    /\ calc.fn = "hashPassword"
    /\ calc' = [fn |-> "hashPasswordAgain", password |-> calc.password,
                digest |-> calc.digest, again |-> hashPassword(calc.password)]
    /\ UNCHANGED svcVars

\* verifyPassword(pw, hash) with the hash a call of hashPassword returned
CallVerifyPassword(pw) ==
    /\ calc.fn = "hashPassword"
    /\ calc' = [fn |-> "verifyPassword", password |-> pw, hashed |-> calc.password,
                digest |-> calc.digest, ok |-> verifyPassword(pw, calc.digest)]
    /\ UNCHANGED svcVars

CallGenerateToken(id) ==
    /\ calc.fn = "none"
    /\ calc' = [fn |-> "generateToken", userID |-> id, token |-> generateToken(id)]
    /\ UNCHANGED svcVars

\* a second token, for the same or another id
CallGenerateTokenAgain(id) ==
    /\ calc.fn = "generateToken"
    /\ calc' = [fn |-> "generateTokenAgain", userID |-> calc.userID,
                token |-> calc.token, otherID |-> id,
                otherToken |-> generateToken(id)]
    /\ UNCHANGED svcVars

PureNext ==
    \/ \E pw \in HashInputs : CallHashPassword(pw)
    \/ CallHashPasswordAgain
    \/ \E pw \in HashInputs : CallVerifyPassword(pw)
    \/ \E id \in TokenInputs : CallGenerateToken(id)
    \/ \E id \in TokenInputs : CallGenerateTokenAgain(id)

PureSpec == Init /\ [][PureNext]_vars

(***************************************************************************)
(* loadDotEnvFromRoot (internal/config/config.go), one loop iteration a    *)
(* step.  A directory is the sequence of the names on its path, the root   *)
(* the empty sequence.                                                     *)
(***************************************************************************)
\* depth of the deepest working directory
MaxDepth == 3

DirNames == <<"srv", "app", "cmd", "api", "v1">>

\* the directories of the tree: a chain from the root down, and one
\* directory beside it
WorkDirs ==
    {SubSeq(DirNames, 1, n) : n \in 0..MaxDepth} \cup {<<"srv", "other">>}

\* filepath.Dir of a directory: its parent, and the root for the root
Dir(path) ==
    IF path = <<>> THEN <<>> ELSE SubSeq(path, 1, Len(path) - 1)

\* a call of loadDotEnvFromRoot about to start, with working directory cwd
\* in a tree whose directories envDirs hold a .env
WalkCall(cwd, envDirs) ==
    [fn |-> "loadDotEnvFromRoot", cwd |-> cwd, envDirs |-> envDirs,
     at |-> "Getwd", currentDir |-> <<>>, visited |-> <<>>, loaded |-> {},
     err |-> Nil]

WalkInit ==
    /\ server = Booting
    /\ users = <<>>
    /\ dbUp = TRUE
    /\ pc = [p \in Procs |-> "idle"]
    /\ request = [p \in Procs |-> [op |-> "none"]]
    /\ newUser = [p \in Procs |-> NilPtr]
    /\ lookup = [p \in Procs |-> Nil]
    /\ result = [p \in Procs |-> NoResult]
    /\ response = [p \in Procs |-> NoResponse]
    /\ \E cwd \in WorkDirs : \E envDirs \in SUBSET WorkDirs :
          calc = WalkCall(cwd, envDirs)

\* os.Getwd(): its error is returned at once
Getwd(ok) ==
    /\ calc.fn = "loadDotEnvFromRoot"
    /\ calc.at = "Getwd"
    /\ calc' = IF ok
               THEN [calc EXCEPT !.at = "Stat", !.currentDir = calc.cwd]
               ELSE [calc EXCEPT !.at = "returned", !.err = "getwd: no such file or directory"]
    /\ UNCHANGED svcVars

\* an iteration that looks in the parent before it looks in the directory
StatEnvParentFirst ==
    /\ calc.fn = "loadDotEnvFromRoot"
    /\ calc.at = "Stat"
    /\ calc' = IF Dir(calc.currentDir) \in calc.envDirs
               THEN [calc EXCEPT !.at = "Load",
                                 !.currentDir = Dir(calc.currentDir),
                                 !.visited = Append(@, Dir(calc.currentDir))]
               ELSE IF Dir(calc.currentDir) = calc.currentDir
               THEN [calc EXCEPT !.at = "returned",
                                 !.visited = Append(@, calc.currentDir)]
               ELSE [calc EXCEPT !.currentDir = Dir(calc.currentDir),
                                 !.visited = Append(@, Dir(calc.currentDir))]
    /\ UNCHANGED svcVars

\* one iteration of the loop: os.Stat of currentDir/.env; found, go to
\* load it; not found, stop at the root (its parent is itself) or go on
\* with the parent
StatEnv ==
    /\ calc.fn = "loadDotEnvFromRoot"
    /\ calc.at = "Stat"
    /\ calc' = IF calc.currentDir \in calc.envDirs
               THEN [calc EXCEPT !.at = "Load",
                                 !.visited = Append(@, calc.currentDir)]
               ELSE IF Dir(calc.currentDir) = calc.currentDir
               THEN [calc EXCEPT !.at = "returned",
                                 !.visited = Append(@, calc.currentDir)]
               ELSE [calc EXCEPT !.currentDir = Dir(calc.currentDir),
                                 !.visited = Append(@, calc.currentDir)]
    /\ UNCHANGED svcVars

\* return godotenv.Load(envPath): the file is read, or its error returned
Load(ok) ==
    /\ calc.fn = "loadDotEnvFromRoot"
    /\ calc.at = "Load"
    /\ calc' = [calc EXCEPT !.at = "returned",
                            !.loaded = {calc.currentDir},
                            !.err = IF ok THEN Nil ELSE "godotenv: unexpected character"]
    /\ UNCHANGED svcVars

WalkNext ==
    \/ \E ok \in BOOLEAN : Getwd(ok)
    \/ StatEnv
    \/ \E ok \in BOOLEAN : Load(ok)

\* the call runs on until it returns
WalkSpec == WalkInit /\ [][WalkNext]_vars /\ WF_vars(WalkNext)

(***************************************************************************)
(* LoadConfig, GetDSN (internal/config/config.go) and the driver selection *)
(* of InitDatabase (internal/database/database.go).  The environment maps  *)
(* each variable to NilPtr when it is unset and to Ptr(value) when set.    *)
(***************************************************************************)
EnvKeys == {"DB_TYPE", "DB_PASSWORD", "DB_HOST"}

\* the environments the process is started in
Environs ==
    [EnvKeys -> {NilPtr}]
      \cup {[k \in EnvKeys |-> IF k = "DB_TYPE" THEN Ptr(t)
                                ELSE IF k = "DB_PASSWORD" THEN pw ELSE host] :
              t \in {"", "mysql", "postgres", " mysql ", "postgres\n", "MySQL",
                     "sqlite", "  ", "mysql postgres"},
              pw \in {NilPtr, Ptr(" s3cret ")},
              host \in {NilPtr, Ptr("db.internal")}}
      \cup {[k \in EnvKeys |-> IF k = "DB_PASSWORD" THEN Ptr("s3cret") ELSE NilPtr]}

\* what loadDotEnvFromRoot loaded: no file, or the assignments of a .env
DotEnvs ==
    {NilPtr, Ptr([DB_TYPE |-> "postgres"]), Ptr([DB_TYPE |-> "oracle"]),
     Ptr([DB_PASSWORD |-> "dotenvpw"])}

\* os.Getenv: the value, "" for an unset variable
Getenv(environ, key) ==
    IF key \in DOMAIN environ /\ environ[key] # NilPtr
    THEN Deref(environ[key]) ELSE ""

\* getEnv(key, defaultValue)
getEnv(environ, key, defaultValue) ==
    IF Getenv(environ, key) # "" THEN Getenv(environ, key) ELSE defaultValue

\* godotenv.Load: sets the variables of the file that the environment does
\* not have yet
godotenvLoad(environ, file) ==
    [k \in DOMAIN environ |->
        IF environ[k] # NilPtr THEN environ[k]
        ELSE IF k \in DOMAIN file THEN Ptr(file[k]) ELSE NilPtr]

Whitespace == {" ", "\t", "\n", "\r"}

RECURSIVE TrimLeft(_)
TrimLeft(str) ==
    IF Len(str) > 0 /\ SubSeq(str, 1, 1) \in Whitespace
    THEN TrimLeft(SubSeq(str, 2, Len(str))) ELSE str

RECURSIVE TrimRight(_)
TrimRight(str) ==
    IF Len(str) > 0 /\ SubSeq(str, Len(str), Len(str)) \in Whitespace
    THEN TrimRight(SubSeq(str, 1, Len(str) - 1)) ELSE str

\* strings.TrimSpace
TrimSpace(str) == TrimRight(TrimLeft(str))

\* the Config literal of LoadConfig
NewConfig(environ) ==
    [Database |-> [Type     |-> TrimSpace(getEnv(environ, "DB_TYPE", "mysql")),
                   User     |-> TrimSpace(getEnv(environ, "DB_USER", "root")),
                   Password |-> TrimSpace(getEnv(environ, "DB_PASSWORD", "")),
                   Name     |-> TrimSpace(getEnv(environ, "DB_NAME", "ecomgo")),
                   Host     |-> TrimSpace(getEnv(environ, "DB_HOST", "localhost")),
                   Port     |-> TrimSpace(getEnv(environ, "DB_PORT", "3306")),
                   SSLMode  |-> TrimSpace(getEnv(environ, "DB_SSLMODE", "disable"))],
     Server   |-> [Port |-> TrimSpace(getEnv(environ, "SERVER_PORT", "8085"))],
     Keycloak |-> [URL          |-> TrimSpace(getEnv(environ, "KEYCLOAK_URL", "http://localhost:8080")),
                   Realm        |-> TrimSpace(getEnv(environ, "KEYCLOAK_REALM", "master")),
                   ClientID     |-> TrimSpace(getEnv(environ, "KEYCLOAK_CLIENT_ID", "ecomgo")),
                   ClientSecret |-> TrimSpace(getEnv(environ, "KEYCLOAK_CLIENT_SECRET", ""))]]

\* a LoadConfig that returns whatever it read
LoadConfigUnvalidated(environ, dotenv) ==
    LET loaded == IF dotenv = NilPtr THEN environ
                  ELSE godotenvLoad(environ, Deref(dotenv))
    IN  [environ |-> loaded, cfg |-> Ptr(NewConfig(loaded)), err |-> Nil]

\* LoadConfig in the environment environ, with dotenv the file that
\* loadDotEnvFromRoot finds: the environment after the call, and the
\* configuration and the error returned
LoadConfig(environ, dotenv) ==
    LET loaded == IF dotenv = NilPtr THEN environ
                  ELSE godotenvLoad(environ, Deref(dotenv))
        cfg    == NewConfig(loaded)
    IN  IF cfg.Database.Type # "mysql" /\ cfg.Database.Type # "postgres"
        THEN [environ |-> loaded, cfg |-> NilPtr,
              err |-> "invalid DB_TYPE: " \o cfg.Database.Type
                        \o " (must be 'mysql' or 'postgres')"]
        ELSE [environ |-> loaded, cfg |-> Ptr(cfg), err |-> Nil]

\* Database.GetDSN
GetDSN(db) ==
    CASE db.Type = "mysql" ->
           db.User \o ":" \o db.Password \o "@tcp(" \o db.Host \o ":" \o db.Port
             \o ")/" \o db.Name
             \o "?charset=utf8mb4&parseTime=True&loc=Local&allowNativePasswords=true"
      [] db.Type = "postgres" ->
           "host=" \o db.Host \o " port=" \o db.Port \o " user=" \o db.User
             \o " password=" \o db.Password \o " dbname=" \o db.Name
             \o " sslmode=" \o db.SSLMode
      [] OTHER -> ""

\* the switch of InitDatabase: the dialector opened and its DSN, or the
\* error of the default case
InitDatabase(cfg) ==
    CASE cfg.Database.Type = "mysql" ->
           [dialector |-> "mysql",
            dsn |-> cfg.Database.User \o ":" \o cfg.Database.Password \o "@tcp("
                      \o cfg.Database.Host \o ":" \o cfg.Database.Port \o ")/"
                      \o cfg.Database.Name
                      \o "?charset=utf8mb4&parseTime=True&loc=Local&allowNativePasswords=true",
            err |-> Nil]
      [] cfg.Database.Type = "postgres" ->
           [dialector |-> "postgres",
            dsn |-> "host=" \o cfg.Database.Host \o " port=" \o cfg.Database.Port
                      \o " user=" \o cfg.Database.User
                      \o " password=" \o cfg.Database.Password
                      \o " dbname=" \o cfg.Database.Name
                      \o " sslmode=" \o cfg.Database.SSLMode,
            err |-> Nil]
      [] OTHER ->
           [dialector |-> Nil, dsn |-> "",
            err |-> "unsupported database type: " \o cfg.Database.Type]

\* main before it loads the configuration
ConfigInit ==
    /\ server = Booting
    /\ users = <<>>
    /\ dbUp = TRUE
    /\ pc = [p \in Procs |-> "idle"]
    /\ request = [p \in Procs |-> [op |-> "none"]]
    /\ newUser = [p \in Procs |-> NilPtr]
    /\ lookup = [p \in Procs |-> Nil]
    /\ result = [p \in Procs |-> NoResult]
    /\ response = [p \in Procs |-> NoResponse]
    /\ calc = NoCall

\* cfg, err := config.LoadConfig()
CallLoadConfig(environ, dotenv) ==
    /\ calc.fn = "none"
    /\ LET out == LoadConfig(environ, dotenv)
       IN  calc' = [fn |-> "LoadConfig", environ |-> out.environ,
                    cfg |-> out.cfg, err |-> out.err]
    /\ UNCHANGED svcVars

\* database.InitDatabase(cfg, appLogger) with the configuration returned
CallInitDatabase ==
    /\ calc.fn = "LoadConfig"
    /\ calc.cfg # NilPtr
    /\ LET out == InitDatabase(Deref(calc.cfg))
       IN  calc' = [fn |-> "InitDatabase", environ |-> calc.environ,
                    cfg |-> calc.cfg, dialector |-> out.dialector,
                    dsn |-> out.dsn, err |-> out.err]
    /\ UNCHANGED svcVars

\* cfg.Database.GetDSN() with the configuration returned
CallGetDSN ==
    /\ calc.fn = "LoadConfig"
    /\ calc.cfg # NilPtr
    /\ calc' = [fn |-> "GetDSN", environ |-> calc.environ, cfg |-> calc.cfg,
                dsn |-> GetDSN(Deref(calc.cfg).Database)]
    /\ UNCHANGED svcVars

ConfigNext ==
    \/ \E environ \in Environs : \E dotenv \in DotEnvs :
          CallLoadConfig(environ, dotenv)
    \/ CallInitDatabase
    \/ CallGetDSN

ConfigSpec == ConfigInit /\ [][ConfigNext]_vars

(***************************************************************************)
(* Properties.                                                             *)
(***************************************************************************)
\* p has served a well-formed request of kind op
Served(p, op) ==
    /\ pc[p] = "done"
    /\ request[p].op = op
    /\ (op # "getuser" => ~request[p].body.syntaxError)

Registered(email) ==
    \E i \in 1..Len(users) : NotDeleted(users[i]) /\ users[i].Email = email

\* C1: of two Register calls with the same email, each of which found the
\* email free at its existence lookup, exactly one returns success and the
\* other returns an error.
RegisterRaceExactlyOneSucceeds ==
    \A p, q \in Procs :
        (/\ p # q
         /\ Served(p, "register") /\ Served(q, "register")
         /\ request[p].body.Email = request[q].body.Email
         /\ lookup[p] = ErrUserNotFound /\ lookup[q] = ErrUserNotFound)
        => ((result[p].err = Nil) # (result[q].err = Nil))

\* C1, the half the store keeps: no two Register calls with the same email
\* both return success.
RegisterRaceNeverBothSucceed ==
    \A p, q \in Procs :
        (/\ p # q
         /\ Served(p, "register") /\ Served(q, "register")
         /\ request[p].body.Email = request[q].body.Email)
        => ~(result[p].err = Nil /\ result[q].err = Nil)

\* C2: in every reachable state at most one non-deleted user record exists
\* for any email.
AtMostOneUserPerEmail ==
    \A i, j \in 1..Len(users) :
        (/\ NotDeleted(users[i]) /\ NotDeleted(users[j])
         /\ users[i].Email = users[j].Email)
        => i = j

\* a second insert for an email the store already holds has been turned down
SecondInsertRejected ==
    \E p \in Procs :
        /\ Served(p, "register")
        /\ lookup[p] = ErrUserNotFound
        /\ result[p].err # Nil
        /\ Registered(request[p].body.Email)

\* C3: every stored user carries a generated, non-empty identifier that
\* differs from the identifier of every other record.
UserIDsGeneratedAndUnique ==
    \A i \in 1..Len(users) :
        /\ users[i].ID # ""
        /\ \A j \in 1..Len(users) : users[i].ID = users[j].ID => i = j

\* the rows a Login with this body may return
LoginMatches(body, table) ==
    {i \in 1..Len(table) :
        /\ NotDeleted(table[i])
        /\ table[i].Email = body.Email
        /\ table[i].PasswordHash = hashPassword(body.Password)}

\* C4: in any reachable store state, a Register whose email is not
\* registered when its insert runs succeeds with a token, and a Login with
\* the email and password of a registered user succeeds with a token.
RegisterThenLoginSucceeds ==
    [][\A p \in Procs :
          /\ (/\ pc[p] = "CreateUser" /\ pc'[p] = "done"
              /\ ~Registered(Deref(newUser[p]).Email))
             => (/\ result'[p].err = Nil
                 /\ result'[p].resp # NilPtr
                 /\ response'[p].status = StatusCreated)
          /\ \A body \in LoginBodies :
                (/\ ~body.syntaxError
                 /\ handleLogin(p, body)
                 /\ LoginMatches(body, users) # {})
                => (/\ result'[p].err = Nil
                    /\ result'[p].resp # NilPtr
                    /\ response'[p].status = StatusOK)
      ]_vars

\* C5: a Register for an email that a non-deleted user already holds fails
\* with "user already exists" (HTTP 400 with that message), whatever the
\* password and names, and leaves the store as it was.
RegisterExistingEmailFails ==
    [][\A p \in Procs : \A body \in RegisterBodies :
          (/\ ~body.syntaxError
           /\ handleRegister(p, body)
           /\ Registered(body.Email))
          => (/\ pc'[p] = "done"
              /\ result'[p] = [resp |-> NilPtr, err |-> ErrUserExists]
              /\ response'[p] = [status |-> StatusBadRequest,
                                 text |-> "user already exists\n", json |-> {}]
              /\ users' = users)
      ]_vars

\* a second Register for a registered email, with another password and other
\* names, has been refused
SecondRegisterRefused ==
    \E p \in Procs : \E i \in 1..Len(users) :
        /\ Served(p, "register")
        /\ result[p].err = ErrUserExists
        /\ response[p].status = StatusBadRequest
        /\ users[i].Email = request[p].body.Email
        /\ users[i].FirstName # request[p].body.FirstName
        /\ users[i].PasswordHash # hashPassword(request[p].body.Password)

\* C6: when the insert of Register is turned down because a record with the
\* email was inserted after the existence check, Register returns the error
\* "user already exists", as when the check finds the user.
DuplicateInsertIsAlreadyExists ==
    [][\A p \in Procs :
          (/\ pc[p] = "CreateUser" /\ pc'[p] = "done"
           /\ \E i \in 1..Len(users) : users[i].Email = Deref(newUser[p]).Email)
          => result'[p].err = ErrUserExists
      ]_vars

\* C7: Login returns an AuthResult only for a non-deleted user with exactly
\* the email whose stored hash is the hash of the password, and the user in
\* the result is that record; otherwise it returns an error and no token.
LoginOnlyWithMatchingCredentials ==
    [][\A p \in Procs : \A body \in LoginBodies :
          (~body.syntaxError /\ handleLogin(p, body))
          => (/\ result'[p].err = Nil
                    => \E i \in LoginMatches(body, users) :
                          /\ Deref(result'[p].resp).User = users[i]
                          /\ Deref(response'[p].json).user = MarshalUser(users[i])
              /\ (result'[p].err # Nil \/ LoginMatches(body, users) = {})
                    => (/\ result'[p].err # Nil
                        /\ result'[p].resp = NilPtr
                        /\ response'[p].json = {}))
      ]_vars

\* a Login has succeeded while another user, or another password, was refused
LoginSucceededAndFailed ==
    \E p, q \in Procs :
        /\ Served(p, "login") /\ result[p].err = Nil
        /\ Served(q, "login") /\ result[q].err # Nil
        /\ request[q].body.Email = request[p].body.Email

\* C8: a failed Login gives the same error ("invalid credentials", HTTP 401
\* "Invalid credentials") whether or not the email is registered.
LoginFailureUniform ==
    \A p \in Procs :
        (Served(p, "login") /\ result[p].err # Nil)
        => (/\ result[p] = [resp |-> NilPtr, err |-> "invalid credentials"]
            /\ response[p] = [status |-> StatusUnauthorized,
                              text |-> "Invalid credentials\n", json |-> {}])

\* one Login failed on a wrong password, another on an unregistered email
LoginFailedBothWays ==
    \E p, q \in Procs :
        /\ Served(p, "login") /\ result[p].err # Nil
        /\ Registered(request[p].body.Email)
        /\ Served(q, "login") /\ result[q].err # Nil
        /\ ~Registered(request[q].body.Email)

\* C9: verifyPassword(p, hashPassword(q)) is true exactly when p = q, the
\* empty string included, and a second hashPassword of the same plaintext
\* gives the same digest.
HasherVerifiesExactlyItsPlaintext ==
    /\ calc.fn = "verifyPassword" => (calc.ok <=> calc.password = calc.hashed)
    /\ calc.fn = "hashPasswordAgain" => calc.again = calc.digest

\* another plaintext has been verified against the digest of a password
VerifiedOtherPlaintext ==
    /\ calc.fn = "verifyPassword"
    /\ calc.hashed = "secret1"
    /\ calc.password = "secret10"
    /\ ~calc.ok

\* C10: the token of every AuthResult is the constant prefix followed by
\* the id of the user in the result, so Login and Register give a user the
\* same token and different ids give different tokens.
TokenIsPrefixThenID ==
    /\ \A p \in Procs :
          ((Served(p, "register") \/ Served(p, "login")) /\ result[p].err = Nil)
          => (/\ Deref(result[p].resp).Token
                    = "eyJhbGciOiJIUzI1NiIsInR5cCI6IkpXVCJ9."
                         \o Deref(result[p].resp).User.ID
              /\ Deref(response[p].json).token
                    = "eyJhbGciOiJIUzI1NiIsInR5cCI6IkpXVCJ9."
                         \o Deref(response[p].json).user.id)
    /\ \A i, j \in TokenInputs :
          (generateToken(i) = generateToken(j)) <=> (i = j)

\* a user has been given a token by Register and the same token by Login
SameTokenFromRegisterAndLogin ==
    \E p, q \in Procs :
        /\ Served(p, "register") /\ result[p].err = Nil
        /\ Served(q, "login") /\ result[q].err = Nil
        /\ Deref(result[p].resp).User = Deref(result[q].resp).User
        /\ Deref(result[p].resp).Token = Deref(result[q].resp).Token

\* C11: a GET /users/{i} for the id i of a user that a successful Register
\* stored succeeds and returns that user (same id, email, first and last
\* name).
RegisteredUserFoundByID ==
    [][\A p \in Procs : \A id \in PathIDs : \A i \in 1..Len(users) :
          (/\ handleGetUser(p, id, "")
           /\ users[i].ID = id
           /\ NotDeleted(users[i]))
          => (/\ result'[p] = [resp |-> Ptr(users[i]), err |-> Nil]
              /\ response'[p] = [status |-> StatusOK, text |-> "",
                                 json |-> {MarshalUser(users[i])}])
      ]_vars

\* C12: a GET /users/{id} for an id that no stored user carries, that is an
\* id no successful Register returned, answers HTTP 404 without a user; when
\* the service is reached its error is "user not found" and the body is
\* "User not found".
UnknownIDNotFound ==
    [][\A p \in Procs : \A id \in PathIDs :
          (/\ handleGetUser(p, id, "")
           /\ \A i \in 1..Len(users) : users[i].ID # id)
          => (/\ result'[p].resp = NilPtr
              /\ response'[p].status = StatusNotFound
              /\ response'[p].json = {}
              /\ id # "" => (/\ result'[p].err = "user not found"
                             /\ response'[p].text = "User not found\n"))
      ]_vars

\* an id that no user carries has been asked for while a user is stored
UnknownIDAskedFor ==
    \E p \in Procs :
        /\ Served(p, "getuser")
        /\ users # <<>>
        /\ request[p].seen = users
        /\ \A i \in 1..Len(users) : users[i].ID # request[p].id
        /\ result[p].err = "user not found"
        /\ response[p].status = StatusNotFound

\* the table has a soft-deleted row with this value in the column and no
\* other row with it
OnlyDeleted(column, value) ==
    /\ \E i \in 1..Len(users) : users[i][column] = value /\ ~NotDeleted(users[i])
    /\ \A i \in 1..Len(users) : users[i][column] = value => ~NotDeleted(users[i])

\* C13: a soft-deleted user is invisible to every lookup: GetUserByID with
\* its id gives "user not found" and no user, and Login with its
\* email gives "invalid credentials" (HTTP 401) whatever the password, as
\* for an absent record.
SoftDeletedInvisible ==
    [][/\ \A id \in PathIDs :
            (ServiceGetUserByID(id) /\ OnlyDeleted("ID", id))
            => (calc'.user = NilPtr /\ calc'.err = "user not found")
       /\ \A p \in Procs : \A body \in LoginBodies :
            (/\ ~body.syntaxError
             /\ handleLogin(p, body)
             /\ OnlyDeleted("Email", body.Email))
            => (/\ result'[p] = [resp |-> NilPtr, err |-> "invalid credentials"]
                /\ response'[p] = [status |-> StatusUnauthorized,
                                   text |-> "Invalid credentials\n", json |-> {}])
      ]_vars

\* a soft-deleted user has been looked up by its id, and has tried to log in
\* with its password
SoftDeletedLookedUp ==
    \E p \in Procs : \E i \in 1..Len(users) :
        /\ ~NotDeleted(users[i])
        /\ calc.fn = "GetUserByID"
        /\ calc.id = users[i].ID
        /\ calc.err = "user not found"
        /\ Served(p, "login")
        /\ request[p].body.Email = users[i].Email
        /\ hashPassword(request[p].body.Password) = users[i].PasswordHash
        /\ result[p].err = "invalid credentials"

\* C14: a Register or Login whose email is missing or not email-shaped, or
\* whose password is missing or shorter than 6 characters, is answered with
\* HTTP 400 "Invalid request" before the service runs: no store call is
\* pending or made, nothing is stored and no token is issued.
InvalidInputRejected ==
    /\ \A p \in Procs :
          (/\ request[p].op \in {"register", "login"}
           /\ ~ValidBody(request[p].body))
          => (/\ pc[p] = "done"
              /\ result[p] = [resp |-> NilPtr, err |-> Nil]
              /\ response[p] = [status |-> StatusBadRequest,
                                text |-> "Invalid request\n", json |-> {}])
    /\ \A i \in 1..Len(users) : EmailShaped(users[i].Email)

\* sub occurs in s
Contains(s, sub) ==
    \E i \in 1..(Len(s) - Len(sub) + 1) : SubSeq(s, i, i + Len(sub) - 1) = sub

\* the user object of a JSON body: the body of get-user, the user field of
\* an authentication response
UserObject(j) == IF "token" \in DOMAIN j THEN j.user ELSE j

\* C15: no response, success or failure, carries a password_hash or
\* deleted_at field, or the password hash of a user anywhere in its text,
\* its token or a field of its user object.
NoSecretInResponse ==
    \A p \in Procs : \A pw \in Passwords :
        /\ ~Contains(response[p].text, hashPassword(pw))
        /\ \A j \in response[p].json :
              /\ DOMAIN UserObject(j)
                    \cap {"password_hash", "deleted_at", "PasswordHash", "DeletedAt"} = {}
              /\ \A f \in DOMAIN UserObject(j) :
                    ~Contains(UserObject(j)[f], hashPassword(pw))
              /\ "token" \in DOMAIN j => ~Contains(j.token, hashPassword(pw))

\* a stored user with a password hash has come back from Login, and a
\* Register has failed on the store
UserReturnedAndInsertFailed ==
    \E p, q \in Procs : \E i \in 1..Len(users) :
        /\ Served(p, "login") /\ result[p].err = Nil
        /\ \E j \in response[p].json : j.user.email = users[i].Email
        /\ Len(users[i].PasswordHash) = 64
        /\ Served(q, "register")
        /\ response[q].json = {}
        /\ Contains(response[q].text, "Duplicate entry")

\* C16: every error body of the register, login and get-user handlers is
\* one of a fixed set of generic messages; none carries the text of a
\* store or driver error.
NoDriverErrorInBody ==
    \A p \in Procs :
        /\ response[p].text \in {"", "Invalid request\n", "user already exists\n",
                                 "Invalid credentials\n", "User not found\n",
                                 "404 page not found\n"}
        /\ ~Contains(response[p].text, "Error 1062")
        /\ ~Contains(response[p].text, "driver:")

\* C17: when the lookup of Login fails because the store does not answer,
\* Login returns an error other than "invalid credentials".
LoginStoreFailureDistinct ==
    [][\A p \in Procs : \A body \in LoginBodies :
          (/\ ~body.syntaxError
           /\ handleLogin(p, body)
           /\ ~dbUp)
          => (/\ result'[p].err # Nil
              /\ result'[p].err # "invalid credentials")
      ]_vars

\* C18: a register, login or get-user request whose store call fails
\* because the store does not answer gets HTTP 500, never 400, 401 or 404.
StoreFailureIs500 ==
    [][\A p \in Procs :
          /\ (pc[p] = "CreateUser" /\ pc'[p] = "done" /\ ~dbUp)
             => response'[p].status = 500
          /\ \A body \in LoginBodies :
                (~body.syntaxError /\ handleLogin(p, body) /\ ~dbUp)
                => response'[p].status = 500
          /\ \A id \in PathIDs :
                (id # "" /\ handleGetUser(p, id, "") /\ ~dbUp)
                => response'[p].status = 500
      ]_vars

CancelledInsertFails ==
    [][\A p \in Procs :
          (/\ pc[p] = "CreateUser" /\ pc'[p] = "done"
           /\ "cancelled" \in DOMAIN request[p])
          => (/\ result'[p].err # Nil
              /\ result'[p].resp = NilPtr
              /\ users' = users)
      ]_vars

\* C21: the store changes only in the step in which a Register returns
\* success, and then by exactly one added record, the others unchanged; a
\* Register that returns an error, a Login and a GetUserByID leave it as
\* it was.
OnlySuccessfulRegisterWrites ==
    [][/\ users' # users
          => \E p \in Procs :
                /\ pc[p] = "CreateUser" /\ pc'[p] = "done"
                /\ result'[p].err = Nil
       /\ \A p \in Procs :
            (pc[p] = "CreateUser" /\ pc'[p] = "done")
            => IF result'[p].err = Nil
               THEN users' = Append(users, Deref(newUser[p]))
               ELSE users' = users
       /\ \A p \in Procs :
            (\/ \E body \in LoginBodies : handleLogin(p, body)
             \/ \E id \in PathIDs : handleGetUser(p, id, "")
             \/ \E body \in RegisterBodies : handleRegister(p, body))
            => users' = users
      ]_vars

\* with a user stored, an insert has been refused by the store and a Login
\* has succeeded
InsertRefusedLoginServed ==
    \E p, q \in Procs :
        /\ Len(users) = 1
        /\ Served(p, "register")
        /\ Contains(result[p].err, "Duplicate entry")
        /\ Served(q, "login")
        /\ result[q].err = Nil

\* C22: a user record, once stored, stays at its place with the same id,
\* email, password hash, names and empty deleted_at, whatever Register,
\* Login and GetUserByID calls follow.
StoredUserNeverChanges ==
    [][\A i \in 1..Len(users) :
          /\ i <= Len(users')
          /\ users'[i] = users[i]
          /\ NotDeleted(users'[i])
      ]_vars

\* a stored user has seen a refused Register of another email and a Login
\* of its own, failed while the store did not answer, go by
StoredUserSawRequests ==
    \E p, q \in Procs : \E i \in 1..Len(users) :
        /\ Served(p, "register")
        /\ request[p].body.Email # users[i].Email
        /\ result[p].err # Nil
        /\ Served(q, "login")
        /\ request[q].body.Email = users[i].Email
        /\ result[q].err # Nil

\* C25: whenever Register or Login has returned an AuthResult, its user is
\* a non-deleted record of the store; a Register whose insert failed, and
\* a Login that failed, returned no AuthResult and no token.
TokenOnlyForStoredUser ==
    \A p \in Procs :
        (Served(p, "register") \/ Served(p, "login"))
        => IF result[p].err = Nil
           THEN /\ result[p].resp # NilPtr
                /\ \E i \in 1..Len(users) :
                      /\ users[i] = Deref(result[p].resp).User
                      /\ NotDeleted(users[i])
           ELSE /\ result[p].resp = NilPtr
                /\ response[p].json = {}

\* a Register whose insert failed on the connection has returned its error
\* while another Register has returned a token
InsertFailedWithoutToken ==
    \E p, q \in Procs :
        /\ Served(p, "register")
        /\ result[p].err = "driver: bad connection"
        /\ response[p].json = {}
        /\ Served(q, "register")
        /\ result[q].err = Nil
        /\ \E j \in response[q].json : Len(j.token) > 0

RegisterLookupFailureReturns ==
    [][\A p \in Procs : \A body \in RegisterBodies :
          (/\ ~body.syntaxError
           /\ handleRegister(p, body)
           /\ ~dbUp)
          => (/\ pc'[p] = "done"
              /\ result'[p].err # Nil)
      ]_vars

\* C24: when the only record with an email is soft-deleted, a Register
\* with that email passes the existence check and its insert succeeds.
RegisterAfterSoftDeleteSucceeds ==
    [][\A p \in Procs :
          /\ \A body \in RegisterBodies :
                (/\ ~body.syntaxError
                 /\ handleRegister(p, body)
                 /\ OnlyDeleted("Email", body.Email))
                => pc'[p] = "CreateUser"
          /\ (/\ pc[p] = "CreateUser" /\ pc'[p] = "done"
              /\ OnlyDeleted("Email", Deref(newUser[p]).Email))
             => (/\ result'[p].err = Nil
                 /\ response'[p].status = StatusCreated
                 /\ Len(users') = Len(users) + 1)
      ]_vars

\* C27: the server listens, has the /api/v1 routes and serves a request
\* only when every migration has completed; when a migration has failed
\* the process has ended without listening, without the routes and without
\* a request served.
MigrationsBeforeListening ==
    /\ (\/ server.phase = "ListenAndServe"
        \/ server.routes
        \/ \E p \in Procs : request[p].op # "none")
       => (server.applied = Len(Migrations) /\ server.fatal # "Failed to run migrations")
    /\ server.applied < Len(Migrations)
       => server.phase \in {"Run", "exited"}
    /\ server.fatal = "Failed to run migrations"
       => (/\ server.phase = "exited"
           /\ ~server.routes
           /\ \A p \in Procs : request[p].op = "none")

\* the process has migrated, listens and has served a request
ServingAfterMigrations ==
    /\ server.phase = "ListenAndServe"
    /\ server.applied = Len(Migrations)
    /\ \E p \in Procs : pc[p] = "done" /\ response[p].status = StatusCreated

\* the working directory and its ancestors, nearest first, the root last
Ancestors(cwd) ==
    [i \in 1..(Len(cwd) + 1) |-> SubSeq(cwd, 1, Len(cwd) + 1 - i)]

\* C29: loadDotEnvFromRoot returns from every working directory; it has
\* then visited the working directory and its ancestors in turn up to the
\* nearest one with a .env, which it loaded, or, when none has one, up to
\* the root, and returned no error.
LoadDotEnvTerminates ==
    /\ <>(calc.at = "returned")
    /\ [](  (calc.at = "returned" /\ calc.visited # <<>>)
          => LET chain == Ancestors(calc.cwd)
                 found == {i \in 1..Len(chain) : chain[i] \in calc.envDirs}
             IN  IF found = {}
                 THEN /\ calc.visited = chain
                      /\ calc.loaded = {}
                      /\ calc.err = Nil
                 ELSE LET n == CHOOSE i \in found : \A j \in found : i <= j
                      IN  /\ calc.visited = SubSeq(chain, 1, n)
                          /\ calc.loaded = {chain[n]})

\* from the deepest directory the walk has passed a directory without a
\* .env and loaded the one of an ancestor below the root
WalkedUpToEnv ==
    /\ calc.fn = "loadDotEnvFromRoot"
    /\ calc.at = "returned"
    /\ Len(calc.cwd) = MaxDepth
    /\ Len(calc.visited) > 1
    /\ \E d \in calc.loaded : d # <<>> /\ <<>> \in calc.envDirs

\* C28: LoadConfig returns a configuration exactly when DB_TYPE, trimmed,
\* and taken as "mysql" when the variable is unset or empty, is "mysql" or
\* "postgres", and otherwise an error and no configuration; with every
\* configuration it returns InitDatabase selects a driver and GetDSN gives a
\* non-empty DSN.
LoadConfigValidatesDBType ==
    /\ calc.fn = "LoadConfig" =>
          LET var  == calc.environ["DB_TYPE"]
              type == IF var = NilPtr \/ var = Ptr("") THEN "mysql"
                      ELSE TrimSpace(Deref(var))
          IN  IF type \in {"mysql", "postgres"}
              THEN /\ calc.err = Nil
                   /\ calc.cfg # NilPtr
                   /\ Deref(calc.cfg).Database.Type = type
              ELSE /\ calc.err # Nil
                   /\ calc.cfg = NilPtr
    /\ calc.fn = "InitDatabase" =>
          /\ calc.err = Nil
          /\ calc.dialector \in {"mysql", "postgres"}
          /\ calc.dialector = Deref(calc.cfg).Database.Type
    /\ calc.fn = "GetDSN" => calc.dsn # ""

\* a DB_TYPE with white space around it gave a configuration, and
\* InitDatabase selected its driver
PaddedTypeSelectsDriver ==
    /\ calc.fn = "InitDatabase"
    /\ calc.environ["DB_TYPE"] = Ptr("postgres\n")
    /\ calc.dialector = "postgres"
=============================================================================
